---- MODULE Spec2Model ----
(***************************************************************************)
(* Model of xformers/csrc/attention/cuda/fmha/kernels/generate_kernels.py: *)
(* the enumeration of the kernel variants (FwdKernel.get_all,              *)
(* BwdKernel.get_all), their ordering (dataclass(order=True) and           *)
(* kernels.sort()), the two groupings and the emission of write_decl_impl, *)
(* followed by the behaviour of the emitted C++ text: the top-level        *)
(* dispatch function and the guarded kernel entry points.                  *)
(***************************************************************************)
EXTENDS Integers, Sequences, FiniteSets, TLC

VARIABLES
    family,               \* family_name argument of write_decl_impl
    pc,                   \* position in the script / in the emitted code
    idx,                  \* position of the running for-loop
    kernels,              \* the local list `kernels`
    implfile_to_kernels,  \* defaultdict(list), as a list of (key, val) items
    cat_to_kernels,       \* defaultdict(list), as a list of (key, val) items
    declarations,         \* the per-category parts appended to `declarations`
    dispatch_all,         \* the clauses appended to `dispatch_all`
    header_file,          \* <<>> or <<the written {family_name}.h>>
    impl_files,           \* the written {family_name}_{f}.cu files
    DT,                   \* template argument DT of the emitted dispatch
    cc,                   \* argument cc of the emitted dispatch
    forwarded,            \* the category helpers the dispatch called, in order
    offered,              \* what the callback cb was handed, in order
    launch                \* <<>> or <<the last run of an entry point>>

vars == <<family, pc, idx, kernels, implfile_to_kernels, cat_to_kernels,
          declarations, dispatch_all, header_file, impl_files,
          DT, cc, forwarded, offered, launch>>

(***************************************************************************)
(* Bounds of the runtime inputs: capability values handed to the emitted   *)
(* dispatch and architectures the entry points are compiled for.           *)
(***************************************************************************)
MinCC == 48
MaxCC == 91

\* cc = 0 is the default argument of the emitted dispatch function.
CCValues == {0} \cup (MinCC..MaxCC)

\* __CUDA_ARCH__ of a device compilation pass; NoArch is the host pass,
\* where the macro is not defined.
NoArch == [defined |-> FALSE, value |-> 0]
ArchValues ==
    {[defined |-> TRUE, value |-> 10 * c] : c \in MinCC..MaxCC} \cup {NoArch}

(***************************************************************************)
(* Tables                                                                  *)
(***************************************************************************)
\* DTYPES.keys(), in insertion order
DTYPES_keys == <<"f32", "f16", "bf16">>

DTYPES(dtype) ==
    CASE dtype = "f32"  -> "float"
      [] dtype = "f16"  -> "cutlass::half_t"
      [] dtype = "bf16" -> "cutlass::bfloat16_t"

SM == <<50, 70, 75, 80>>

\* variant: zip(SM, SM[1:]), without the final upper bound
SMRanges_NoSentinel == [i \in 1..(Len(SM) - 1) |-> <<SM[i], Tail(SM)[i]>>]

\* zip(SM, SM[1:] + [90])
SMRanges ==
    LET upper == Tail(SM) \o <<90>>
    IN  [i \in 1..Len(SM) |-> <<SM[i], upper[i]>>]

\* the unicode code points of the precision tags (str comparison is by them)
CodePoints(s) ==
    CASE s = "f32"  -> <<102, 51, 50>>
      [] s = "f16"  -> <<102, 49, 54>>
      [] s = "bf16" -> <<98, 102, 49, 54>>

(***************************************************************************)
(* Comparison, as python compares ints, bools, strs and tuples             *)
(***************************************************************************)
IntCmp(a, b) == IF a < b THEN -1 ELSE IF a > b THEN 1 ELSE 0

BoolInt(b) == IF b THEN 1 ELSE 0

BoolCmp(a, b) == IntCmp(BoolInt(a), BoolInt(b))

RECURSIVE IntSeqCmp(_, _)
IntSeqCmp(s, t) ==
    IF s = <<>> /\ t = <<>> THEN 0
    ELSE IF s = <<>> THEN -1
    ELSE IF t = <<>> THEN 1
    ELSE IF Head(s) # Head(t) THEN IntCmp(Head(s), Head(t))
    ELSE IntSeqCmp(Tail(s), Tail(t))

StrCmp(a, b) == IntSeqCmp(CodePoints(a), CodePoints(b))

\* the comparison of two tuples, given the comparisons of their items
RECURSIVE TupleCmp(_)
TupleCmp(cs) ==
    IF cs = <<>> THEN 0
    ELSE IF Head(cs) # 0 THEN Head(cs)
    ELSE TupleCmp(Tail(cs))

(***************************************************************************)
(* FwdKernel                                                               *)
(***************************************************************************)
\* variant: the unaligned kernels ranked first
FwdSortIndex_AlignedLast(aligned, single_value_iter, k, supports_dropout, supports_bias) ==
    << IF aligned THEN 1 ELSE 0,
       IF single_value_iter THEN 0 ELSE 1,
       k,
       IF supports_dropout THEN 1 ELSE 0,
       IF supports_bias THEN 1 ELSE 0 >>

FwdSortIndex(aligned, single_value_iter, k, supports_dropout, supports_bias) ==
    << IF aligned THEN 0 ELSE 1,
       IF single_value_iter THEN 0 ELSE 1,
       k,
       IF supports_dropout THEN 1 ELSE 0,
       IF supports_bias THEN 1 ELSE 0 >>

\* cls(aligned=..., dtype=..., sm=..., sm_max=..., q=..., k=...,
\*     single_value_iter=...), supports_dropout and supports_bias defaulted
FwdKernel(aligned, dtype, sm, sm_max, q, k, single_value_iter) ==
    [ sort_index        |-> FwdSortIndex(aligned, single_value_iter, k, TRUE, TRUE),
      aligned           |-> aligned,
      dtype             |-> dtype,
      sm                |-> sm,
      sm_max            |-> sm_max,
      q                 |-> q,
      k                 |-> k,
      single_value_iter |-> single_value_iter,
      supports_dropout  |-> TRUE,
      supports_bias     |-> TRUE ]

\* dataclass(order=True): the tuples of the fields, in declaration order
FwdCmp(a, b) ==
    TupleCmp(<< IntSeqCmp(a.sort_index, b.sort_index),
                BoolCmp(a.aligned, b.aligned),
                StrCmp(a.dtype, b.dtype),
                IntCmp(a.sm, b.sm),
                IntCmp(a.sm_max, b.sm_max),
                IntCmp(a.q, b.q),
                IntCmp(a.k, b.k),
                BoolCmp(a.single_value_iter, b.single_value_iter),
                BoolCmp(a.supports_dropout, b.supports_dropout),
                BoolCmp(a.supports_bias, b.supports_bias) >>)

AlignedSuffix(k) == IF k.aligned THEN "aligned" ELSE "notaligned"

\* variant: the name without its _sm suffix
FwdName_NoSm(k) ==
    LET acc == IF k.single_value_iter THEN "rf" ELSE "gmem"
    IN  "fmha_cutlassF_" \o k.dtype \o "_" \o AlignedSuffix(k) \o "_"
           \o ToString(k.q) \o "x" \o ToString(k.k) \o "_" \o acc

FwdName(k) ==
    LET acc == IF k.single_value_iter THEN "rf" ELSE "gmem"
    IN  "fmha_cutlassF_" \o k.dtype \o "_" \o AlignedSuffix(k) \o "_"
           \o ToString(k.q) \o "x" \o ToString(k.k) \o "_" \o acc
           \o "_sm" \o ToString(k.sm)

BoolStr(b) == IF b THEN "true" ELSE "false"

FwdCppClass(k) ==
    "AttentionKernel<" \o DTYPES(k.dtype)
        \o ", cutlass::arch::Sm" \o ToString(k.sm)
        \o ", " \o BoolStr(k.aligned)
        \o ", " \o ToString(k.q)
        \o ", " \o ToString(k.k)
        \o ", " \o BoolStr(k.single_value_iter)
        \o ", " \o BoolStr(k.supports_dropout)
        \o ", " \o BoolStr(k.supports_bias) \o ">"

FwdImplGroup(k) == k.dtype \o "_" \o AlignedSuffix(k)

(***************************************************************************)
(* BwdKernel                                                               *)
(***************************************************************************)
\* variant: max_k left out of the key
BwdSortIndex_NoMaxK(aligned, apply_dropout, max_k) ==
    << IF aligned THEN 0 ELSE 1,
       IF apply_dropout THEN 1 ELSE 0 >>

BwdSortIndex(aligned, apply_dropout, max_k) ==
    << IF aligned THEN 0 ELSE 1,
       IF apply_dropout THEN 1 ELSE 0,
       max_k >>

BwdKernel(aligned, dtype, sm, sm_max, apply_dropout, max_k) ==
    [ sort_index    |-> BwdSortIndex(aligned, apply_dropout, max_k),
      sm            |-> sm,
      sm_max        |-> sm_max,
      dtype         |-> dtype,
      aligned       |-> aligned,
      apply_dropout |-> apply_dropout,
      max_k         |-> max_k ]

BwdCmp(a, b) ==
    TupleCmp(<< IntSeqCmp(a.sort_index, b.sort_index),
                IntCmp(a.sm, b.sm),
                IntCmp(a.sm_max, b.sm_max),
                StrCmp(a.dtype, b.dtype),
                BoolCmp(a.aligned, b.aligned),
                BoolCmp(a.apply_dropout, b.apply_dropout),
                IntCmp(a.max_k, b.max_k) >>)

BwdName(k) ==
    LET dropout_suffix == IF k.apply_dropout THEN "_dropout" ELSE ""
    IN  "fmha_cutlassB_" \o k.dtype \o "_" \o AlignedSuffix(k)
           \o "_k" \o ToString(k.max_k) \o dropout_suffix
           \o "_sm" \o ToString(k.sm)

BwdCppClass(k) ==
    "AttentionBackwardKernel<cutlass::arch::Sm" \o ToString(k.sm)
        \o ", " \o DTYPES(k.dtype)
        \o ", " \o BoolStr(k.aligned)
        \o ", " \o BoolStr(k.apply_dropout)
        \o ", " \o ToString(k.max_k) \o ">"

BwdImplGroup(k) ==
    LET dropout_suffix == IF k.apply_dropout THEN "_dropout" ELSE ""
    IN  k.dtype \o "_" \o AlignedSuffix(k) \o "_k" \o ToString(k.max_k)
           \o dropout_suffix

(***************************************************************************)
(* T = TypeVar("T", FwdKernel, BwdKernel): the methods of either class     *)
(***************************************************************************)
IsFwd(k) == "q" \in DOMAIN k

Name(k) == IF IsFwd(k) THEN FwdName(k) ELSE BwdName(k)

CppClass(k) == IF IsFwd(k) THEN FwdCppClass(k) ELSE BwdCppClass(k)

ImplGroup(k) == IF IsFwd(k) THEN FwdImplGroup(k) ELSE BwdImplGroup(k)

\* a < b, the __lt__ that dataclass(order=True) generates
KernelLt(a, b) == (IF IsFwd(a) THEN FwdCmp(a, b) ELSE BwdCmp(a, b)) = -1

\* KERNEL_IMPL_TEMPLATE.format(CPP_CLASS=..., NAME=..., SM=..., SM_MAX=...):
\* the rendered text, as the values substituted into the template
CppImpl(k) ==
    [ CPP_CLASS |-> CppClass(k),
      NAME      |-> Name(k),
      SM        |-> k.sm,
      SM_MAX    |-> k.sm_max ]

(***************************************************************************)
(* get_all                                                                 *)
(***************************************************************************)
\* itertools.product([True, False], DTYPES.keys(), zip(SM, SM[1:] + [90]))
FwdProduct ==
    LET A == <<TRUE, FALSE>>
        B == DTYPES_keys
        C == SMRanges
    IN  [n \in 1..(Len(A) * Len(B) * Len(C)) |->
            << A[((n - 1) \div (Len(B) * Len(C))) + 1],
               B[(((n - 1) \div Len(C)) % Len(B)) + 1],
               C[((n - 1) % Len(C)) + 1] >>]

\* itertools.product([True, False], DTYPES.keys(), zip(SM, SM[1:] + [90]),
\*                   [True, False], [32, 64, 128, 2**16])
BwdProduct ==
    LET D == <<TRUE, FALSE>>
        E == <<32, 64, 128, 65536>>
    IN  [n \in 1..(Len(FwdProduct) * Len(D) * Len(E)) |->
            LET abc == FwdProduct[((n - 1) \div (Len(D) * Len(E))) + 1]
            IN  << abc[1], abc[2], abc[3],
                   D[(((n - 1) \div Len(E)) % Len(D)) + 1],
                   E[((n - 1) % Len(E)) + 1] >>]

\* the (q, k, single_value_iter) list of the inner loop of FwdKernel.get_all
FwdTiles == << <<32, 128, TRUE>>, <<32, 128, FALSE>>, <<64, 64, TRUE>> >>

\* variant: bf16 kept from sm75 on
Skipped_Below75(aligned, dtype, sm) ==
    \/ dtype = "bf16" /\ sm < 75
    \/ ~aligned /\ sm >= 80

\* the two `continue` tests: "Remove some kernels we don't use"
Skipped(aligned, dtype, sm) ==
    \/ dtype = "bf16" /\ sm < 80
    \/ ~aligned /\ sm >= 80

(***************************************************************************)
(* list.sort(): a stable sort that compares with __lt__ only               *)
(***************************************************************************)
\* the place of s[i] in the sorted list, counted from 0: the items that are
\* less than it, and the items equal to it that stand before it
Rank(s, i) ==
    Cardinality({j \in 1..Len(s) :
                    \/ KernelLt(s[j], s[i])
                    \/ ~KernelLt(s[i], s[j]) /\ j < i})

StableSort(s) ==
    LET rank == [i \in 1..Len(s) |-> Rank(s, i)]
    IN  [p \in 1..Len(s) |-> s[CHOOSE i \in 1..Len(s) : rank[i] = p - 1]]

\* variant: the list left in enumeration order
Sorted_NoSort(s) == s

\* kernels.sort()
Sorted(s) == StableSort(s)

(***************************************************************************)
(* collections.defaultdict(list), in insertion order of its keys           *)
(***************************************************************************)
HasKey(d, key) == \E i \in 1..Len(d) : d[i].key = key

\* variant: d[key] = [v]
DictAppend_Assign(d, key, v) ==
    IF HasKey(d, key)
    THEN [i \in 1..Len(d) |->
            IF d[i].key = key THEN [key |-> key, val |-> <<v>>] ELSE d[i]]
    ELSE Append(d, [key |-> key, val |-> <<v>>])

\* d[key].append(v)
DictAppend(d, key, v) ==
    IF HasKey(d, key)
    THEN [i \in 1..Len(d) |->
            IF d[i].key = key THEN [key |-> key, val |-> Append(d[i].val, v)]
            ELSE d[i]]
    ELSE Append(d, [key |-> key, val |-> <<v>>])

\* the key (k.dtype, k.sm, k.sm_max) of cat_to_kernels
CatKey(k) == <<k.dtype, k.sm, k.sm_max>>

(***************************************************************************)
(* The emitted text                                                        *)
(***************************************************************************)
\* f"dispatch_{family_name}_{cat_dt}_sm{cat_sm}"
DispatchCategoryFn(family_name, cat_dt, cat_sm) ==
    "dispatch_" \o family_name \o "_" \o cat_dt \o "_sm" \o ToString(cat_sm)

\* what one iteration over cat_to_kernels.items() appends to `declarations`:
\* the forward declarations and the category's dispatch helper
CategoryDeclarations(family_name, item) ==
    [ comment |-> <<item.key[1], item.key[2]>>,
      decls   |-> [i \in 1..Len(item.val) |-> CppImpl(item.val[i]).NAME],
      fn      |-> DispatchCategoryFn(family_name, item.key[1], item.key[2]),
      calls   |-> [i \in 1..Len(item.val) |->
                      [ CPP_CLASS |-> CppClass(item.val[i]),
                        NAME      |-> Name(item.val[i]) ]] ]

\* what the same iteration appends to `dispatch_all`
DispatchClause(family_name, item) ==
    [ is_same |-> DTYPES(item.key[1]),
      sm      |-> item.key[2],
      sm_max  |-> item.key[3],
      fn      |-> DispatchCategoryFn(family_name, item.key[1], item.key[2]) ]

\* the decimal digits of a number, and back
RECURSIVE Digits(_)
Digits(n) == IF n < 10 THEN <<n>> ELSE Append(Digits(n \div 10), n % 10)

RECURSIVE Value(_)
Value(ds) ==
    IF ds = <<>> THEN 0 ELSE 10 * Value(SubSeq(ds, 1, Len(ds) - 1)) + ds[Len(ds)]

\* variant: "{SM}" and "{SM_MAX}", without the digit
WithZero_NoZero(n) == Value(Digits(n))

\* "{SM}0" and "{SM_MAX}0": the number formatted, followed by the digit 0
WithZero(n) == Value(Append(Digits(n), 0))

\* variant: cc <= sm_max
ClauseHolds_Inclusive(c, dt, ccv) ==
    dt = c.is_same /\ c.sm <= ccv /\ ccv <= c.sm_max

\* the condition of one `if` of the emitted dispatch_{family_name}
ClauseHolds(c, dt, ccv) ==
    dt = c.is_same /\ c.sm <= ccv /\ ccv < c.sm_max

\* the body of the helper `fn` of the header: its cb(...) calls in order
HelperCalls(header, fn) ==
    LET hs == {i \in 1..Len(header.declarations) : header.declarations[i].fn = fn}
    IN  header.declarations[CHOOSE i \in hs : TRUE].calls

\* the emitted dispatch_{family_name}<DT>(cb, cc): every `if` in turn; the
\* helpers it calls, in order
RECURSIVE RunClauses(_, _, _)
RunClauses(clauses, dt, ccv) ==
    IF clauses = <<>> THEN <<>>
    ELSE (IF ClauseHolds(Head(clauses), dt, ccv)
          THEN <<Head(clauses).fn>>
          ELSE <<>>)
         \o RunClauses(Tail(clauses), dt, ccv)

\* the cb(...) calls that running the helpers `fns` of the header makes
RECURSIVE RunHelpers(_, _)
RunHelpers(header, fns) ==
    IF fns = <<>> THEN <<>>
    ELSE HelperCalls(header, Head(fns)) \o RunHelpers(header, Tail(fns))

\* variant: a single test with __CUDA_ARCH__ <= {SM_MAX}0
EntryPoint_UpperInclusive(e, arch, advance_to_block) ==
    IF ~arch.defined
    THEN [kernel |-> FALSE, printf |-> <<>>]
    ELSE IF arch.value >= WithZero(e.SM) /\ arch.value <= WithZero(e.SM_MAX)
         THEN [kernel |-> advance_to_block, printf |-> <<>>]
         ELSE [kernel |-> FALSE,
               printf |-> <<[NAME |-> e.NAME, SM |-> e.SM, SM_MAX |-> e.SM_MAX,
                             built |-> (arch.value + 0) \div 10]>>]

\* one run of the entry point rendered from KERNEL_IMPL_TEMPLATE, compiled
\* with __CUDA_ARCH__ = arch, where p.advance_to_block() returns the given
\* value: whether attention_kernel ran, and the arguments of printf if called
EntryPoint(e, arch, advance_to_block) ==
    IF ~arch.defined
    THEN [kernel |-> FALSE, printf |-> <<>>]
    ELSE IF arch.value >= WithZero(e.SM)
         THEN IF arch.value < WithZero(e.SM_MAX)
              THEN IF ~advance_to_block
                   THEN [kernel |-> FALSE, printf |-> <<>>]
                   ELSE [kernel |-> TRUE, printf |-> <<>>]
              ELSE [kernel |-> FALSE,
                    printf |-> <<[NAME |-> e.NAME, SM |-> e.SM,
                                  SM_MAX |-> e.SM_MAX, built |-> (arch.value + 0) \div 10]>>]
         ELSE [kernel |-> FALSE,
               printf |-> <<[NAME |-> e.NAME, SM |-> e.SM,
                             SM_MAX |-> e.SM_MAX, built |-> (arch.value + 0) \div 10]>>]

(***************************************************************************)
(* The script: write_decl_impl(FwdKernel.get_all(), "cutlassF", ...) and   *)
(* write_decl_impl(BwdKernel.get_all(), "cutlassB", ...)                   *)
(***************************************************************************)
Init ==
    /\ family \in {"cutlassF", "cutlassB"}
    /\ pc = "get_all"
    /\ idx = 1
    /\ kernels = <<>>
    /\ implfile_to_kernels = <<>>
    /\ cat_to_kernels = <<>>
    /\ declarations = <<>>
    /\ dispatch_all = <<>>
    /\ header_file = <<>>
    /\ impl_files = <<>>
    /\ DT = ""
    /\ cc = 0
    /\ forwarded = <<>>
    /\ offered = <<>>
    /\ launch = <<>>

\* one iteration of the outer loop of FwdKernel.get_all
FwdGetAllStep ==
    /\ pc = "get_all"
    /\ family = "cutlassF"
    /\ LET aligned == FwdProduct[idx][1]
           dtype   == FwdProduct[idx][2]
           sm      == FwdProduct[idx][3][1]
           sm_max  == FwdProduct[idx][3][2]
       IN  kernels' =
              IF Skipped(aligned, dtype, sm)
              THEN kernels
              ELSE kernels \o
                   [t \in 1..Len(FwdTiles) |->
                       FwdKernel(aligned, dtype, sm, sm_max,
                                 FwdTiles[t][1], FwdTiles[t][2], FwdTiles[t][3])]
    /\ idx' = IF idx = Len(FwdProduct) THEN 1 ELSE idx + 1
    /\ pc' = IF idx = Len(FwdProduct) THEN "sort" ELSE "get_all"
    /\ UNCHANGED <<family, implfile_to_kernels, cat_to_kernels, declarations,
                   dispatch_all, header_file, impl_files, DT, cc, forwarded, offered, launch>>

\* one iteration of the loop of BwdKernel.get_all
BwdGetAllStep ==
    /\ pc = "get_all"
    /\ family = "cutlassB"
    /\ LET aligned       == BwdProduct[idx][1]
           dtype         == BwdProduct[idx][2]
           sm            == BwdProduct[idx][3][1]
           sm_max        == BwdProduct[idx][3][2]
           apply_dropout == BwdProduct[idx][4]
           max_k         == BwdProduct[idx][5]
       IN  kernels' =
              IF Skipped(aligned, dtype, sm)
              THEN kernels
              ELSE Append(kernels,
                          BwdKernel(aligned, dtype, sm, sm_max, apply_dropout, max_k))
    /\ idx' = IF idx = Len(BwdProduct) THEN 1 ELSE idx + 1
    /\ pc' = IF idx = Len(BwdProduct) THEN "sort" ELSE "get_all"
    /\ UNCHANGED <<family, implfile_to_kernels, cat_to_kernels, declarations,
                   dispatch_all, header_file, impl_files, DT, cc, forwarded, offered, launch>>

\* write_decl_impl up to the first loop: kernels.sort()
Sort ==
    /\ pc = "sort"
    /\ kernels' = Sorted(kernels)
    /\ pc' = IF kernels = <<>> THEN "write_header" ELSE "group"
    /\ UNCHANGED <<family, idx, implfile_to_kernels, cat_to_kernels, declarations,
                   dispatch_all, header_file, impl_files, DT, cc, forwarded, offered, launch>>

\* one iteration of `for k in kernels`
GroupStep ==
    /\ pc = "group"
    /\ LET k == kernels[idx]
       IN  /\ implfile_to_kernels' = DictAppend(implfile_to_kernels, ImplGroup(k), k)
           /\ cat_to_kernels' = DictAppend(cat_to_kernels, CatKey(k), k)
    /\ idx' = IF idx = Len(kernels) THEN 1 ELSE idx + 1
    /\ pc' = IF idx = Len(kernels) THEN "emit_category" ELSE "group"
    /\ UNCHANGED <<family, kernels, declarations, dispatch_all, header_file,
                   impl_files, DT, cc, forwarded, offered, launch>>

\* one iteration of `for (cat_dt, cat_sm, cat_sm_max), kernels in
\* cat_to_kernels.items()`; the loop rebinds `kernels`
EmitCategoryStep ==
    /\ pc = "emit_category"
    /\ LET item == cat_to_kernels[idx]
       IN  /\ kernels' = item.val
           /\ declarations' = Append(declarations, CategoryDeclarations(family, item))
           /\ dispatch_all' = Append(dispatch_all, DispatchClause(family, item))
    /\ idx' = IF idx = Len(cat_to_kernels) THEN 1 ELSE idx + 1
    /\ pc' = IF idx = Len(cat_to_kernels) THEN "write_header" ELSE "emit_category"
    /\ UNCHANGED <<family, implfile_to_kernels, cat_to_kernels, header_file,
                   impl_files, DT, cc, forwarded, offered, launch>>

\* Path(f"{family_name}.h").write_text(declarations)
WriteHeader ==
    /\ pc = "write_header"
    /\ header_file' = << [ name         |-> family \o ".h",
                           declarations |-> declarations,
                           dispatch_all |-> dispatch_all ] >>
    /\ pc' = IF implfile_to_kernels = <<>> THEN "done" ELSE "write_impl"
    /\ UNCHANGED <<family, idx, kernels, implfile_to_kernels, cat_to_kernels,
                   declarations, dispatch_all, impl_files, DT, cc, forwarded, offered, launch>>

\* one iteration of `for f, f_kernels in implfile_to_kernels.items()`
WriteImplStep ==
    /\ pc = "write_impl"
    /\ LET item == implfile_to_kernels[idx]
       IN  impl_files' =
              Append(impl_files,
                     [ name    |-> family \o "_" \o item.key \o ".cu",
                       impl_cu |-> [i \in 1..Len(item.val) |-> CppImpl(item.val[i])] ])
    /\ idx' = IF idx = Len(implfile_to_kernels) THEN 1 ELSE idx + 1
    /\ pc' = IF idx = Len(implfile_to_kernels) THEN "done" ELSE "write_impl"
    /\ UNCHANGED <<family, kernels, implfile_to_kernels, cat_to_kernels,
                   declarations, dispatch_all, header_file, DT, cc, forwarded, offered, launch>>

(***************************************************************************)
(* The emitted code at run time                                            *)
(***************************************************************************)
\* every entry point defined by the written .cu files
EntryPoints ==
    UNION { {impl_files[f].impl_cu[i] : i \in 1..Len(impl_files[f].impl_cu)}
            : f \in 1..Len(impl_files) }

\* a call dispatch_{family_name}<DT>(cb, cc) of the written header, with a
\* callback that records what it is given
Dispatch ==
    /\ pc = "done"
    /\ \E dt \in {DTYPES(DTYPES_keys[i]) : i \in 1..Len(DTYPES_keys)}, ccv \in CCValues :
          /\ DT' = dt
          /\ cc' = ccv
          /\ forwarded' = RunClauses(header_file[1].dispatch_all, dt, ccv)
          /\ offered' = RunHelpers(header_file[1],
                                   RunClauses(header_file[1].dispatch_all, dt, ccv))
    /\ pc' = "dispatched"
    /\ launch' = <<>>
    /\ UNCHANGED <<family, idx, kernels, implfile_to_kernels, cat_to_kernels,
                   declarations, dispatch_all, header_file, impl_files>>

\* the callback launches an entry point it was offered, on the device of
\* capability cc, whose code was compiled with __CUDA_ARCH__ = 10 * cc
LaunchOffered ==
    /\ pc = "dispatched"
    /\ \E i \in 1..Len(offered), advance_to_block \in BOOLEAN :
          LET e == CHOOSE e \in EntryPoints : e.NAME = offered[i].NAME
          IN  launch' = << [ NAME    |-> e.NAME,
                             SM      |-> e.SM,
                             SM_MAX  |-> e.SM_MAX,
                             arch    |-> [defined |-> TRUE, value |-> 10 * cc],
                             advance |-> advance_to_block,
                             offered |-> TRUE,
                             result  |-> EntryPoint(e, [defined |-> TRUE, value |-> 10 * cc],
                                                   advance_to_block) ] >>
    /\ pc' = "launched"
    /\ UNCHANGED <<family, idx, kernels, implfile_to_kernels, cat_to_kernels,
                   declarations, dispatch_all, header_file, impl_files,
                   DT, cc, forwarded, offered>>

\* any entry point of the written .cu files, in any compilation pass
Launch ==
    /\ pc = "done"
    /\ \E e \in EntryPoints, arch \in ArchValues, advance_to_block \in BOOLEAN :
          launch' = << [ NAME    |-> e.NAME,
                         SM      |-> e.SM,
                         SM_MAX  |-> e.SM_MAX,
                         arch    |-> arch,
                         advance |-> advance_to_block,
                         offered |-> FALSE,
                         result  |-> EntryPoint(e, arch, advance_to_block) ] >>
    /\ pc' = "launched"
    /\ UNCHANGED <<family, idx, kernels, implfile_to_kernels, cat_to_kernels,
                   declarations, dispatch_all, header_file, impl_files,
                   DT, cc, forwarded, offered>>

Next ==
    \/ FwdGetAllStep
    \/ BwdGetAllStep
    \/ Sort
    \/ GroupStep
    \/ EmitCategoryStep
    \/ WriteHeader
    \/ WriteImplStep
    \/ Dispatch
    \/ LaunchOffered
    \/ Launch

Spec == Init /\ [][Next]_vars

(***************************************************************************)
(* Properties                                                              *)
(***************************************************************************)
\* the cross product of the enumeration axes, per family
FwdCross ==
    { FwdKernel(a, d, r[1], r[2], t[1], t[2], t[3]) :
        a \in BOOLEAN, d \in {"f32", "f16", "bf16"},
        r \in {<<50, 70>>, <<70, 75>>, <<75, 80>>, <<80, 90>>},
        t \in {<<32, 128, TRUE>>, <<32, 128, FALSE>>, <<64, 64, TRUE>>} }

BwdCross ==
    { BwdKernel(a, d, r[1], r[2], dr, mk) :
        a \in BOOLEAN, d \in {"f32", "f16", "bf16"},
        r \in {<<50, 70>>, <<70, 75>>, <<75, 80>>, <<80, 90>>},
        dr \in BOOLEAN, mk \in {32, 64, 128, 65536} }

Cross == IF family = "cutlassF" THEN FwdCross ELSE BwdCross

\* the two exclusion rules
ViolatesRule(v) ==
    \/ v.dtype = "bf16" /\ v.sm < 80
    \/ ~v.aligned /\ v.sm >= 80

Range(s) == {s[i] : i \in 1..Len(s)}

\* get_all has returned and write_decl_impl has not yet rebound `kernels`
Enumerated == pc \in {"sort", "group"} \/ (pc = "emit_category" /\ idx = 1)

\* kernels.sort() has just run
JustSorted == pc = "group" /\ idx = 1

\* the generator has written the header; the header is written once, and
\* the emitted code never writes to it
HeaderWritten == pc \in {"write_impl", "done"}

\* the grouping loop has just ended
JustGrouped == pc = "emit_category" /\ idx = 1

Items(d) == UNION {Range(d[g].val) : g \in 1..Len(d)}

\* every name the written artifacts declare, call or define
EmittedNames ==
    UNION ( { Range(declarations[i].decls) : i \in 1..Len(declarations) }
            \cup { {declarations[i].calls[p].NAME : p \in 1..Len(declarations[i].calls)}
                   : i \in 1..Len(declarations) }
            \cup { {impl_files[f].impl_cu[p].NAME : p \in 1..Len(impl_files[f].impl_cu)}
                   : f \in 1..Len(impl_files) } )

\* C4: no enumerated variant is bf16 with sm below 80 or unaligned with sm at
\* or above 80, in the list and in both groupings, and no name of such a
\* combination is declared, called or defined by an emitted artifact
C4_ExclusionRulesHold ==
    /\ \A i \in 1..Len(kernels) : ~ViolatesRule(kernels[i])
    /\ \A v \in Items(cat_to_kernels) \cup Items(implfile_to_kernels) : ~ViolatesRule(v)
    /\ EmittedNames \cap {Name(v) : v \in {w \in Cross : ViolatesRule(w)}} = {}

C4_Witness ==
    /\ pc = "done"
    /\ family = "cutlassB"
    /\ \E i \in 1..Len(impl_files) : impl_files[i].impl_cu[1].SM = 80
    /\ "fmha_cutlassB_bf16_aligned_k32_sm80" \in EmittedNames

\* C7: the list get_all returns holds every combination of the cross product
\* that violates neither exclusion rule exactly once and nothing else: 45
\* forward variants, 120 backward variants
C7_ExactComplement ==
    Enumerated =>
        /\ Range(kernels) = {v \in Cross : ~ViolatesRule(v)}
        /\ Cardinality(Range(kernels)) = Len(kernels)
        /\ Len(kernels) = (IF family = "cutlassF" THEN 45 ELSE 120)

C7_Witness ==
    /\ pc = "sort"
    /\ family = "cutlassB"
    /\ Len(kernels) = 120
    /\ \E i \in 1..Len(kernels) : kernels[i].max_k = 65536 /\ kernels[i].sm_max = 90

\* C5: any two distinct enumerated variants of a family have different names
C5_NamesDistinct ==
    \A i, j \in 1..Len(kernels) :
        kernels[i] # kernels[j] => Name(kernels[i]) # Name(kernels[j])

C5_Witness ==
    /\ pc = "sort"
    /\ family = "cutlassF"
    /\ \E i, j \in 1..Len(kernels) :
          /\ kernels[i] # kernels[j]
          /\ kernels[i].dtype = kernels[j].dtype
          /\ kernels[i].aligned = kernels[j].aligned
          /\ kernels[i].q = kernels[j].q
          /\ kernels[i].single_value_iter = kernels[j].single_value_iter

\* the number of places (group, position) of a dict of lists that hold v
Places(d, v) ==
    Cardinality({gp \in UNION {{<<g, p>> : p \in 1..Len(d[g].val)} : g \in 1..Len(d)} :
                    d[gp[1]].val[gp[2]] = v})

\* C6: after the grouping loop every variant is in exactly one category
\* group, the one of its (dtype, sm, sm_max), and in exactly one
\* compilation-unit group, the one of its impl_group, once in each; the
\* category groups and the compilation-unit groups both add up to the list
C6_GroupsPartition ==
    JustGrouped =>
        /\ \A i \in 1..Len(kernels) :
              /\ Places(cat_to_kernels, kernels[i]) = 1
              /\ Places(implfile_to_kernels, kernels[i]) = 1
        /\ \A g \in 1..Len(cat_to_kernels) :
              /\ \A h \in 1..Len(cat_to_kernels) :
                    cat_to_kernels[g].key = cat_to_kernels[h].key => g = h
              /\ \A p \in 1..Len(cat_to_kernels[g].val) :
                    <<cat_to_kernels[g].val[p].dtype, cat_to_kernels[g].val[p].sm,
                      cat_to_kernels[g].val[p].sm_max>> = cat_to_kernels[g].key
        /\ \A g \in 1..Len(implfile_to_kernels) :
              /\ \A h \in 1..Len(implfile_to_kernels) :
                    implfile_to_kernels[g].key = implfile_to_kernels[h].key => g = h
              /\ \A p \in 1..Len(implfile_to_kernels[g].val) :
                    ImplGroup(implfile_to_kernels[g].val[p]) = implfile_to_kernels[g].key
        /\ Items(cat_to_kernels) = Range(kernels)
        /\ Items(implfile_to_kernels) = Range(kernels)
        /\ Range(kernels) = {v \in Cross : ~ViolatesRule(v)}

C6_Witness ==
    /\ JustGrouped
    /\ family = "cutlassB"
    /\ Len(cat_to_kernels) = 9
    /\ Len(implfile_to_kernels) = 40
    /\ \E g \in 1..Len(cat_to_kernels) : Len(cat_to_kernels[g].val) = 16

\* the variants of the family that belong to the category (dtype, sm, sm_max)
Members(dtype, sm, sm_max) ==
    {v \in Cross : ~ViolatesRule(v) /\ v.dtype = dtype /\ v.sm = sm /\ v.sm_max = sm_max}

\* sort_key a is strictly larger than sort_key b
KeyLarger(a, b) ==
    \E n \in 1..Len(a) : a[n] > b[n] /\ \A m \in 1..(n - 1) : a[m] = b[m]

\* C3: the helper of every category calls cb exactly once for each variant
\* of the category and for nothing else, and never calls it for a variant
\* after one of a strictly larger sort_key; every category has one helper
C3_HelperCallsInPriorityOrder ==
    HeaderWritten =>
        LET h == header_file[1] IN
        /\ \A v \in {w \in Cross : ~ViolatesRule(w)} :
              Cardinality({i \in 1..Len(h.declarations) :
                  /\ h.declarations[i].comment = <<v.dtype, v.sm>>
                  /\ h.dispatch_all[i].sm_max = v.sm_max}) = 1
        /\ \A i \in 1..Len(h.declarations) :
              LET calls == h.declarations[i].calls
                  mem   == Members(h.declarations[i].comment[1],
                                   h.declarations[i].comment[2],
                                   h.dispatch_all[i].sm_max)
                  of    == [p \in 1..Len(calls) |->
                               {v \in mem : Name(v) = calls[p].NAME
                                            /\ CppClass(v) = calls[p].CPP_CLASS}]
              IN  /\ \A p \in 1..Len(calls) : Cardinality(of[p]) = 1
                  /\ \A v \in mem :
                        Cardinality({p \in 1..Len(calls) : v \in of[p]}) = 1
                  /\ \A p, q \in 1..Len(calls) :
                        p < q => \A a \in of[p], b \in of[q] :
                                    ~KeyLarger(a.sort_index, b.sort_index)

C3_Witness ==
    /\ HeaderWritten
    /\ family = "cutlassF"
    /\ \E i \in 1..Len(header_file[1].declarations) :
          LET calls == header_file[1].declarations[i].calls
          IN  /\ Len(calls) = 6
              /\ calls[1].NAME = "fmha_cutlassF_f16_aligned_64x64_rf_sm50"
              /\ calls[6].NAME = "fmha_cutlassF_f16_notaligned_32x128_gmem_sm50"

\* the declared precedence, most significant first, each field as the place
\* of its value in the declared order
Precedence(v) ==
    IF IsFwd(v)
    THEN << IF v.aligned THEN 0 ELSE 1,            \* aligned before unaligned
            IF v.single_value_iter THEN 0 ELSE 1,  \* register before global memory
            v.k,                                   \* ascending k_tile
            IF v.supports_dropout THEN 1 ELSE 0,   \* no dropout support first
            IF v.supports_bias THEN 1 ELSE 0 >>    \* no bias support first
    ELSE << IF v.aligned THEN 0 ELSE 1,            \* aligned before unaligned
            IF v.apply_dropout THEN 1 ELSE 0,      \* no dropout application first
            v.max_k >>                             \* ascending max_k, 65536 last

\* the first differing field of the precedence puts a before b
Precedes(a, b) ==
    \E n \in 1..Len(Precedence(a)) :
        /\ Precedence(a)[n] < Precedence(b)[n]
        /\ \A m \in 1..(n - 1) : Precedence(a)[m] = Precedence(b)[m]

\* C1: on the variants of a family the order of kernels.sort() is a strict
\* total order: irreflexive, transitive, and of two distinct variants exactly
\* one is less than the other; the sorted list is ascending in it; and
\* whenever the first differing field of the declared precedence puts a
\* before b, a is less than b and is sorted before b
C1_SortOrderIsPrecedence ==
    JustSorted =>
        LET n    == Len(kernels)
            less == [i \in 1..n |-> {j \in 1..n : KernelLt(kernels[i], kernels[j])}]
        IN  /\ Range(kernels) = {v \in Cross : ~ViolatesRule(v)}
            /\ \A i \in 1..n : i \notin less[i]
            /\ \A i \in 1..n : \A j \in less[i] : less[j] \subseteq less[i]
            /\ \A i, j \in 1..n :
                  /\ kernels[i] # kernels[j] => (j \in less[i]) # (i \in less[j])
                  /\ i < j => j \in less[i]
                  /\ Precedes(kernels[i], kernels[j]) => (i < j /\ j \in less[i])

C1_Witness ==
    /\ JustSorted
    /\ family = "cutlassB"
    /\ \E i, j \in 1..Len(kernels) :
          /\ i < j
          /\ kernels[i].max_k = 128 /\ kernels[j].max_k = 65536
          /\ kernels[i].aligned /\ kernels[j].aligned
          /\ ~kernels[i].apply_dropout /\ ~kernels[j].apply_dropout
    /\ \E i, j \in 1..Len(kernels) :
          i < j /\ ~kernels[i].aligned = kernels[j].aligned

\* C9 as claimed: any two distinct enumerated variants differ in sort_index
C9_SortIndexDistinct ==
    \A i, j \in 1..Len(kernels) :
        kernels[i] # kernels[j] => kernels[i].sort_index # kernels[j].sort_index

\* C9, amended: any two distinct enumerated variants of the same category
\* (dtype, sm, sm_max) differ in sort_index
C9_SortIndexDistinctInCategory ==
    \A i, j \in 1..Len(kernels) :
        (kernels[i] # kernels[j] /\ CatKey(kernels[i]) = CatKey(kernels[j]))
            => kernels[i].sort_index # kernels[j].sort_index

C9_Witness ==
    /\ pc = "sort"
    /\ \E i, j \in 1..Len(kernels) :
          /\ kernels[i] # kernels[j]
          /\ CatKey(kernels[i]) = CatKey(kernels[j])
          /\ kernels[i].aligned = kernels[j].aligned
    /\ \E i, j \in 1..Len(kernels) :
          /\ kernels[i] # kernels[j]
          /\ kernels[i].sort_index = kernels[j].sort_index

\* the emitted dispatch function has run
Dispatched == pc = "dispatched" \/ (pc = "launched" /\ launch[1].offered)

\* the precision tag of the C++ type DT
TagOf(dt) == CHOOSE d \in {"f32", "f16", "bf16"} : DTYPES(d) = dt

\* the entry point that a name handed to the callback refers to
Named(name) == CHOOSE e \in EntryPoints : e.NAME = name

\* C2: the dispatch function forwards to the helper of a category exactly
\* when the category's dtype is the precision tag and sm_min <= cc < sm_max,
\* and to at most one helper per call; for bf16 and cc = 86 it forwards to
\* the helper of [80, 90) alone, and for bf16 nothing of a range below 80 is
\* handed to the callback
C2_DispatchSelectsCategory ==
    Dispatched =>
        /\ \A g \in 1..Len(cat_to_kernels) :
              LET cat == cat_to_kernels[g].key
                  fn  == header_file[1].declarations[g].fn
              IN  (\E n \in 1..Len(forwarded) : forwarded[n] = fn)
                     <=> (cat[1] = TagOf(DT) /\ cat[2] <= cc /\ cc < cat[3])
        /\ Len(forwarded) <= 1
        /\ offered = (IF forwarded = <<>> THEN <<>>
                      ELSE HelperCalls(header_file[1], forwarded[1]))
        /\ (TagOf(DT) = "bf16" /\ cc = 86) =>
              \E g \in 1..Len(cat_to_kernels) :
                  /\ cat_to_kernels[g].key = <<"bf16", 80, 90>>
                  /\ forwarded = <<header_file[1].declarations[g].fn>>
        /\ TagOf(DT) = "bf16" =>
              \A n \in 1..Len(offered) : Named(offered[n].NAME).SM >= 80

C2_Witness ==
    /\ pc = "dispatched"
    /\ TagOf(DT) = "bf16"
    /\ cc = 86
    /\ Len(forwarded) = 1
    /\ Len(offered) > 0

\* C8: an entry point of range [sm, sm_max) compiled for the device
\* architecture A runs the kernel body exactly when sm*10 <= A < sm_max*10
\* and advance_to_block returns true; in range with advance_to_block false it
\* returns with neither kernel nor diagnostic; out of range it never runs the
\* kernel and prints the diagnostic naming the entry point and its range
C8_ArchitectureGuard ==
    (pc = "launched" /\ launch[1].arch.defined) =>
        LET l       == launch[1]
            A       == l.arch.value
            v       == CHOOSE w \in Items(implfile_to_kernels) : Name(w) = l.NAME
            inRange == v.sm * 10 <= A /\ A < v.sm_max * 10
        IN  /\ l.result.kernel <=> (inRange /\ l.advance)
            /\ (inRange /\ ~l.advance) => (~l.result.kernel /\ l.result.printf = <<>>)
            /\ inRange => l.result.printf = <<>>
            /\ ~inRange =>
                  /\ ~l.result.kernel
                  /\ Len(l.result.printf) = 1
                  /\ l.result.printf[1].NAME = Name(v)
                  /\ l.result.printf[1].SM = v.sm
                  /\ l.result.printf[1].SM_MAX = v.sm_max

C8_Witness ==
    /\ pc = "launched"
    /\ launch[1].arch.defined
    /\ launch[1].arch.value = 750
    /\ launch[1].SM = 80
    /\ launch[1].result.printf # <<>>

\* C10: everything the dispatch hands to the callback for the capability cc
\* has sm_min <= cc < sm_max, and its entry point compiled for the
\* architecture 10*cc takes the kernel path, never the diagnostic
C10_DispatchAgreesWithGuard ==
    /\ pc = "dispatched" =>
          \A n \in 1..Len(offered) :
              LET v == CHOOSE w \in Items(cat_to_kernels) : Name(w) = offered[n].NAME
              IN  v.sm <= cc /\ cc < v.sm_max
    /\ (pc = "launched" /\ launch[1].offered) =>
          /\ launch[1].arch = [defined |-> TRUE, value |-> 10 * cc]
          /\ launch[1].result.printf = <<>>
          /\ launch[1].result.kernel = launch[1].advance

C10_Witness ==
    /\ pc = "launched"
    /\ launch[1].offered
    /\ cc = 75
    /\ launch[1].advance
    /\ launch[1].result.kernel

====
